---- MODULE Spec2Model ----
(***************************************************************************)
(* cmenu (src/cmenu.py): the tree of menus and commands, the prefix        *)
(* resolver, dispatch, and the input loop of a menu with its control       *)
(* signals (BreakLoops, ResumeTests), modelled as a state machine.         *)
(*                                                                         *)
(* Strings are sequences of one-character strings: <<"c","1">> is 'cmd1'   *)
(* shortened to 'c1'.  Menus are numbered; 0 stands for None.              *)
(***************************************************************************)
EXTENDS Integers, Sequences, FiniteSets, TLC

VARIABLES
    name_to_command, \* [menu -> sequence of commands]: _Menu.name_to_command
    loop_cmdlines,   \* [menu -> list object, 0 = attribute never set]
    loop_test,       \* [menu -> "unset" | "True" | "False"]
    lists,           \* [list object -> its content]: the lists given to loop()
    stack,           \* the running loops (menu, local cmdline), innermost last
    pc,              \* position of the innermost running loop
    exc,             \* the exception in flight
    completer,       \* the menu whose completer readline holds (0: none)
    events,          \* what the dispatch of the last line did
    reads,           \* number of input() calls so far
    unwind,          \* history: the signal being unwound and where it rose
    call             \* the last direct call of a function and its result

vars == <<name_to_command, loop_cmdlines, loop_test, lists, stack, pc,
          exc, completer, events, reads, unwind, call>>

----------------------------------------------------------------------------
(* Bounds *)

MaxNames == 3       \* children of the menu drawn for the dispatch checks
MaxArgs == 2        \* extra arguments of a direct run_command call
MaxQueue == 2       \* lines in a queue given to the root's loop()
MaxReads == 2       \* interactive reads in one run
MaxOps == 3         \* registrations and removals made by the host in one run
MaxDepth == 6       \* nested run_command calls followed before the
                    \* interpreter's recursion limit is taken as reached

----------------------------------------------------------------------------
(* Strings *)

Min(a, b) == IF a < b THEN a ELSE b

\* str.startswith
startswith(s, prefix) ==
    /\ Len(prefix) <= Len(s)
    /\ SubSeq(s, 1, Len(prefix)) = prefix

\* str.endswith
endswith(s, suffix) ==
    /\ Len(suffix) <= Len(s)
    /\ SubSeq(s, Len(s) - Len(suffix) + 1, Len(s)) = suffix

Whitespace == {" ", "\n"}
Quote == "'"

\* shlex.split over whitespace, one kind of quote and word characters:
\* state "ws" between words, "word" inside a word, "quote" inside quotes.
\* A quote left open at the end of the line is the ValueError that
\* SPLIT_ARGS turns into BadCommandError (ok = FALSE).
RECURSIVE shlex_split(_, _, _, _, _)
shlex_split(line, i, state, token, words) ==
    IF i > Len(line)
    THEN IF state = "quote" THEN [ok |-> FALSE, words |-> <<>>]
         ELSE IF state = "word" THEN [ok |-> TRUE, words |-> Append(words, token)]
         ELSE [ok |-> TRUE, words |-> words]
    ELSE LET ch == line[i] IN
         IF state = "quote"
         THEN IF ch = Quote
              THEN shlex_split(line, i + 1, "word", token, words)
              ELSE shlex_split(line, i + 1, "quote", Append(token, ch), words)
         ELSE IF ch \in Whitespace
         THEN IF state = "word"
              THEN shlex_split(line, i + 1, "ws", <<>>, Append(words, token))
              ELSE shlex_split(line, i + 1, "ws", <<>>, words)
         ELSE IF ch = Quote
         THEN shlex_split(line, i + 1, "quote", token, words)
         ELSE shlex_split(line, i + 1, "word", Append(token, ch), words)

SPLIT_ARGS(line) == shlex_split(line, 1, "ws", <<>>, <<>>)

----------------------------------------------------------------------------
(* Commands *)

\* A command: its name, its class, and what the class carries: the menu
\* number of a sub-menu, the N of a command calling break_loops(N), the
\* tokens of an alias.
Command(name, kind, sub, alias) ==
    [name |-> name, kind |-> kind, sub |-> sub, alias |-> alias]

Action(name) == Command(name, "Action", 0, <<>>)

\* OrderedDict.keys()
keys(commands) == [i \in 1..Len(commands) |-> commands[i].name]

\* name in name_to_command
has_key(commands, name) == \E i \in 1..Len(commands) : commands[i].name = name

\* name_to_command[name]
getitem(commands, name) ==
    commands[CHOOSE i \in 1..Len(commands) : commands[i].name = name]

\* _find_commands without the test for a perfect match
find_commands_no_exact(commands, cmdprefix) ==
    SelectSeq(commands, LAMBDA c : startswith(c.name, cmdprefix))

\* _find_commands with the operands of startswith exchanged
find_commands_swapped(commands, cmdprefix) ==
    IF has_key(commands, cmdprefix)
    THEN <<getitem(commands, cmdprefix)>>
    ELSE SelectSeq(commands, LAMBDA c : startswith(cmdprefix, c.name))

\* _Menu._find_commands
_find_commands(commands, cmdprefix) ==
    IF has_key(commands, cmdprefix)
    THEN <<getitem(commands, cmdprefix)>>
    ELSE SelectSeq(commands, LAMBDA c : startswith(c.name, cmdprefix))

----------------------------------------------------------------------------
(* Dispatch *)

\* What a dispatch did, in order: a command's execute called, a hook
\* called, a diagnostic printed.
Event(ev, menu, name, args, names) ==
    [ev |-> ev, menu |-> menu, name |-> name, args |-> args, names |-> names]

\* How a call ends: "return", "loop" (the loop of menu `menu` is entered
\* by a menu executed without arguments), or an exception.
Outcome(type, menu, all, n) == [type |-> type, menu |-> menu, all |-> all, n |-> n]
Return == Outcome("return", 0, FALSE, 0)
Raise(type) == Outcome(type, 0, FALSE, 0)
\* _Menu.break_loops
break_loops(all, n) == Outcome("BreakLoops", 0, all, n)

Result(ev, out) == [events |-> ev, out |-> out]

\* _Menu.on_bad_command
on_bad_command(menu, cmdprefix, args) ==
    Result(<<Event("on_bad_command", menu, cmdprefix, args, <<>>)>>, Return)

\* _Menu.on_ambiguous_command
on_ambiguous_command(menu, cmdmatches, cmdprefix, args) ==
    Result(<<Event("on_ambiguous_command", menu, cmdprefix, args,
                   keys(cmdmatches))>>, Return)

RECURSIVE _run_command(_, _, _, _, _)

\* _Menu.execute entering the loop whatever the arguments
execute_menu_ignoring_args(ntc, menu, command, args, depth) ==
    Result(<<Event("execute", menu, command.name, args, <<>>)>>,
           Outcome("loop", command.sub, FALSE, 0))

\* _Menu.execute of the sub-menu command.sub registered in menu: with
\* arguments, run_command within the sub-menu; without, its loop.
execute_menu(ntc, menu, command, args, depth) ==
    LET called == <<Event("execute", menu, command.name, args, <<>>)>> IN
    IF Len(args) > 0
    THEN LET r == _run_command(ntc, command.sub, Head(args), Tail(args),
                               depth + 1)
         IN Result(called \o r.events, r.out)
    ELSE Result(called, Outcome("loop", command.sub, FALSE, 0))

\* execute() of each class of command
execute(ntc, menu, command, args, depth) ==
    LET called == <<Event("execute", menu, command.name, args, <<>>)>>
        unrecognized == <<Event("Unrecognized arguments", menu, command.name,
                                args, <<>>)>>
    IN
    CASE command.kind = "Action" -> Result(called, Return)
      [] command.kind = "BreakAction" ->
            Result(called, break_loops(FALSE, command.sub))
      [] command.kind = "Exit" ->
            IF Len(args) > 0 THEN Result(called \o unrecognized, Return)
            ELSE Result(called, break_loops(FALSE, 1))
      [] command.kind = "Quit" ->
            IF Len(args) > 0 THEN Result(called \o unrecognized, Return)
            ELSE Result(called, break_loops(TRUE, 0))
      [] command.kind = "ResumeTest" ->
            IF Len(args) > 0 THEN Result(called \o unrecognized, Return)
            ELSE Result(called, Raise("ResumeTests"))
      [] command.kind = "Menu" -> execute_menu(ntc, menu, command, args, depth)
      [] command.kind = "Alias" ->
            LET words == command.alias \o args IN
            IF Len(words) = 0 THEN Result(called, Raise("TypeError"))
            ELSE LET r == _run_command(ntc, menu, Head(words), Tail(words),
                                       depth + 1)
                 IN Result(called \o r.events, r.out)

\* _run_command taking the first of several matches
run_command_first_match(ntc, menu, cmdprefix, args, depth) ==
    LET cmdmatches == _find_commands(ntc[menu], cmdprefix) IN
    IF Len(cmdmatches) >= 1
    THEN execute(ntc, menu, cmdmatches[1], args, depth)
    ELSE on_bad_command(menu, cmdprefix, args)

\* _run_command reporting several matches followed by arguments as a bad
\* command
run_command_args_unrecognized(ntc, menu, cmdprefix, args, depth) ==
    LET cmdmatches == _find_commands(ntc[menu], cmdprefix) IN
    IF depth > MaxDepth THEN Result(<<>>, Raise("RecursionError"))
    ELSE IF Len(cmdmatches) = 1
    THEN execute(ntc, menu, cmdmatches[1], args, depth)
    ELSE IF Len(cmdmatches) = 0 \/ Len(args) > 0
    THEN on_bad_command(menu, cmdprefix, args)
    ELSE on_ambiguous_command(menu, cmdmatches, cmdprefix, args)

\* _Menu._run_command with method = 'execute'
_run_command(ntc, menu, cmdprefix, args, depth) ==
    LET cmdmatches == _find_commands(ntc[menu], cmdprefix) IN
    IF depth > MaxDepth THEN Result(<<>>, Raise("RecursionError"))
    ELSE IF Len(cmdmatches) = 1
    THEN execute(ntc, menu, cmdmatches[1], args, depth)
    ELSE IF Len(cmdmatches) = 0
    THEN on_bad_command(menu, cmdprefix, args)
    ELSE on_ambiguous_command(menu, cmdmatches, cmdprefix, args)

\* _Menu.run_command
run_command(ntc, menu, cmdprefix, args) ==
    _run_command(ntc, menu, cmdprefix, args, 1)

\* run_line without the except clause for BadCommandError
run_line_uncaught(ntc, menu, line) ==
    IF Len(line) = 0
    THEN Result(<<Event("on_empty_line", menu, <<>>, <<>>, <<>>)>>, Return)
    ELSE LET sp == SPLIT_ARGS(line) IN
         IF ~sp.ok
         THEN Result(<<>>, Raise("BadCommandError"))
         ELSE IF Len(sp.words) = 0
         THEN Result(<<>>, Raise("ValueError"))
         ELSE run_command(ntc, menu, Head(sp.words), Tail(sp.words))

\* _Menu.run_line
run_line(ntc, menu, line) ==
    IF Len(line) = 0
    THEN Result(<<Event("on_empty_line", menu, <<>>, <<>>, <<>>)>>, Return)
    ELSE LET sp == SPLIT_ARGS(line) IN
         IF ~sp.ok
         THEN Result(<<Event("Bad command", menu, <<>>, <<>>, <<>>)>>, Return)
         ELSE IF Len(sp.words) = 0
         THEN Result(<<>>, Raise("ValueError"))
         ELSE run_command(ntc, menu, Head(sp.words), Tail(sp.words))

----------------------------------------------------------------------------
(* The menu tree of the loop checks *)

Root == 1
Menus == {1, 2, 3}

\* _Command.parentmenu of each menu: 1 is the RootMenu, 2 a SubMenu of 1,
\* 3 a SubMenu of 2.
parentmenu == <<0, 1, 2>>

\* The commands registered in each menu at wiring time.  Every menu has an
\* Exit "x", a Quit "q", a ResumeTest "r", an Action "a" and an Action "b"
\* that calls break_loops(2); "s" opens the sub-menu.
Wiring ==
    LET common == <<Command(<<"x">>, "Exit", 0, <<>>),
                    Command(<<"q">>, "Quit", 0, <<>>),
                    Command(<<"r">>, "ResumeTest", 0, <<>>),
                    Action(<<"a">>),
                    Command(<<"b">>, "BreakAction", 2, <<>>)>>
    IN <<<<Command(<<"s">>, "Menu", 2, <<>>)>> \o common,
         <<Command(<<"s">>, "Menu", 3, <<>>)>> \o common,
         common>>

\* An entry of a queue of lines: a string or a TestInteract object.
Str(text) == [kind |-> "str", text |-> text, repeat |-> FALSE, message |-> FALSE]
TestInteract(repeat, message) ==
    [kind |-> "TestInteract", text |-> <<>>, repeat |-> repeat,
     message |-> message]

\* The lines a user types or a queue holds: the commands, a prefix with
\* arguments, the empty line, a blank line, a line with an open quote.
Texts ==
    {<<"s">>, <<"x">>, <<"q">>, <<"r">>, <<"a">>, <<"b">>,
     <<>>, <<" ">>, <<"a", " ", "'">>, <<"s", " ", "s">>, <<"s", " ", "x">>}

Entries ==
    {Str(t) : t \in Texts} \cup
    {TestInteract(FALSE, FALSE), TestInteract(TRUE, TRUE)}

\* The list objects: the one the host gives to the root's loop().
HostList == 1
Lists == {HostList}

SeqsUpTo(S, n) == UNION {[1..k -> S] : k \in 0..n}

Queues == SeqsUpTo(Entries, MaxQueue)

NoExc == Outcome("none", 0, FALSE, 0)
NoCall == [op |-> "none", cmdprefix |-> <<>>, args |-> <<>>,
           matches |-> <<>>, result |-> Result(<<>>, Return)]

\* The local variable cmdline of a loop before its first assignment.
Unbound == [kind |-> "unbound", text |-> <<>>, repeat |-> FALSE,
            message |-> FALSE]

\* A running loop: its menu (self) and its local variable cmdline.
Frame(menu, line) == [menu |-> menu, cmdline |-> line]

top == stack[Len(stack)]
self == top.menu
Front(s) == SubSeq(s, 1, Len(s) - 1)
SetTop(line) == [stack EXCEPT ![Len(stack)].cmdline = line]

\* History of the exception in flight: its type and argument where it was
\* first raised, the running loops at that moment, the loops ended since.
Raised(e) == [type |-> e.type, all |-> e.all, n |-> e.n, base |-> stack,
              ended |-> 0]
NoUnwind == [type |-> "none", all |-> FALSE, n |-> 0, base |-> <<>>,
             ended |-> 0]

----------------------------------------------------------------------------
(* The input loop *)

Init ==
    /\ name_to_command = Wiring
    /\ loop_cmdlines = [m \in Menus |-> 0]
    /\ loop_test = [m \in Menus |-> "unset"]
    /\ lists = [l \in Lists |-> <<>>]
    /\ stack = <<>>
    /\ pc = "idle"
    /\ exc = NoExc
    /\ completer = 0
    /\ events = <<>>
    /\ reads = 0
    /\ unwind = NoUnwind
    /\ call = NoCall

\* The loop of a sub-menu started without its argument test, which is
\* False by default
enter_loop_default_test(menu, cmdlines, test) ==
    /\ loop_cmdlines' = [loop_cmdlines EXCEPT ![menu] = cmdlines]
    /\ loop_test' = [loop_test EXCEPT ![menu] =
                         IF menu = Root THEN test ELSE "False"]
    /\ completer' = menu
    /\ stack' = Append(stack, Frame(menu, Unbound))
    /\ pc' = "pop"

\* The first statements of _Menu.loop, up to the while loop.
enter_loop(menu, cmdlines, test) ==
    /\ loop_cmdlines' = [loop_cmdlines EXCEPT ![menu] = cmdlines]
    /\ loop_test' = [loop_test EXCEPT ![menu] = test]
    /\ completer' = menu
    /\ stack' = Append(stack, Frame(menu, Unbound))
    /\ pc' = "pop"

\* The host calls root.loop(cmdlines=queue, test=test), once.
StartLoop(queue, test) ==
    /\ pc = "idle"
    /\ loop_cmdlines[Root] = 0
    /\ lists' = [lists EXCEPT ![HostList] = queue]
    /\ enter_loop(Root, HostList, test)
    /\ events' = <<>>
    /\ unwind' = NoUnwind
    /\ UNCHANGED <<name_to_command, exc, reads, call>>

\* pop_empty reading interactively whatever the mode
pop_empty_always_input(test) == Return

\* pop_empty ending the loop when not testing
pop_empty_ends_loop(test) ==
    IF test = "True" THEN Raise("InsufficientTestCommands")
    ELSE break_loops(FALSE, 1)

\* _Menu.loop, except IndexError: what follows loop_cmdlines.pop(0) on an
\* empty list, an exception or (Return) the interactive read.
pop_empty(test) ==
    IF test = "True" THEN Raise("InsufficientTestCommands") ELSE Return

\* after_test_interact inserting the popped object itself again
after_test_interact_same_object(cmdline, rest) ==
    IF cmdline.repeat THEN <<cmdline>> \o rest ELSE rest

\* _Menu.loop, isinstance(cmdline, TestInteract): the list after cmdline
\* was popped from it and, if it repeats, a new TestInteract without a
\* message was inserted at its head.
after_test_interact(cmdline, rest) ==
    IF cmdline.repeat THEN <<TestInteract(TRUE, FALSE)>> \o rest ELSE rest

\* print(cmdline.message) for a TestInteract that has a message
print_message(menu, cmdline) ==
    IF cmdline.kind = "TestInteract" /\ cmdline.message
    THEN <<Event("print message", menu, <<>>, <<>>, <<>>)>>
    ELSE <<>>

\* The head of the while loop: the next line is popped from the list.
LoopPop ==
    /\ pc = "pop"
    /\ LET l == loop_cmdlines[self]
           queue == lists[l]
       IN IF Len(queue) = 0
          THEN LET e == pop_empty(loop_test[self]) IN
               /\ exc' = IF e = Return THEN NoExc ELSE e
               /\ pc' = IF e = Return THEN "input" ELSE "raise"
               /\ unwind' = IF e = Return THEN NoUnwind ELSE Raised(e)
               /\ UNCHANGED <<lists, stack>>
          ELSE IF Head(queue).kind = "TestInteract"
          THEN /\ lists' = [lists EXCEPT ![l] =
                       after_test_interact(Head(queue), Tail(queue))]
               /\ stack' = SetTop(Head(queue))
               /\ pc' = "input"
               /\ unwind' = NoUnwind
               /\ UNCHANGED exc
          ELSE /\ lists' = [lists EXCEPT ![l] = Tail(queue)]
               /\ stack' = SetTop(Head(queue))
               /\ pc' = "run_line"
               /\ unwind' = NoUnwind
               /\ UNCHANGED exc
    /\ events' = IF Len(lists[loop_cmdlines[self]]) = 0 THEN <<>>
                 ELSE print_message(self, Head(lists[loop_cmdlines[self]]))
    /\ UNCHANGED <<name_to_command, loop_cmdlines, loop_test, completer,
                   reads, call>>

\* cmdline = input(self.prompt) returns a line.
LoopInput(text) ==
    /\ pc = "input"
    /\ reads < MaxReads
    /\ reads' = reads + 1
    /\ stack' = SetTop(Str(text))
    /\ pc' = "run_line"
    /\ UNCHANGED <<name_to_command, loop_cmdlines, loop_test, lists, exc,
                   completer, events, unwind, call>>

\* input(self.prompt) raises EOFError (Ctrl+d).
LoopEOF ==
    /\ pc = "input"
    /\ exc' = Raise("EOFError")
    /\ pc' = "raise"
    /\ unwind' = Raised(Raise("EOFError"))
    /\ UNCHANGED <<name_to_command, loop_cmdlines, loop_test, lists, stack,
                   completer, events, reads, call>>

\* self.run_line(cmdline) in the loop of the innermost menu, up to its
\* return, to the exception it raises, or to the first pop of the loop of
\* a sub-menu it enters (_Menu.execute without arguments).
LoopRunLine ==
    /\ pc = "run_line"
    /\ LET r == run_line(name_to_command, self, top.cmdline.text)
       IN /\ events' = r.events
          /\ IF r.out.type = "return"
             THEN /\ pc' = "pop"
                  /\ UNCHANGED <<loop_cmdlines, loop_test, stack, exc,
                                 completer, unwind>>
             ELSE IF r.out.type = "loop"
             THEN LET parent == parentmenu[r.out.menu] IN
                  IF loop_cmdlines[parent] = 0
                  THEN /\ exc' = Raise("AttributeError")
                       /\ pc' = "raise"
                       /\ unwind' = Raised(Raise("AttributeError"))
                       /\ UNCHANGED <<loop_cmdlines, loop_test, stack,
                                      completer>>
                  ELSE /\ enter_loop(r.out.menu, loop_cmdlines[parent],
                                     loop_test[parent])
                       /\ UNCHANGED <<exc, unwind>>
             ELSE /\ exc' = r.out
                  /\ pc' = "raise"
                  /\ unwind' = Raised(r.out)
                  /\ UNCHANGED <<loop_cmdlines, loop_test, stack, completer>>
    /\ UNCHANGED <<name_to_command, lists, reads, call>>

\* except_ testing N >= 1 instead of N > 1: BreakLoops(0) goes on
except_off_by_one(menu, all, n) ==
    IF parentmenu[menu] # 0
    THEN IF all THEN [out |-> break_loops(TRUE, 0), completer |-> completer]
         ELSE IF n >= 1
         THEN [out |-> break_loops(FALSE, n - 1), completer |-> completer]
         ELSE [out |-> Return, completer |-> parentmenu[menu]]
    ELSE [out |-> Return, completer |-> completer]

\* except_ raising BreakLoops(N) again instead of BreakLoops(N - 1)
except_no_decrement(menu, all, n) ==
    IF parentmenu[menu] # 0
    THEN IF all THEN [out |-> break_loops(TRUE, 0), completer |-> completer]
         ELSE IF n > 1
         THEN [out |-> break_loops(FALSE, n), completer |-> completer]
         ELSE [out |-> Return, completer |-> parentmenu[menu]]
    ELSE [out |-> Return, completer |-> completer]

\* except_ without the test 'N is True' (True > 1 is false)
except_true_as_one(menu, all, n) ==
    IF parentmenu[menu] # 0
    THEN IF ~all /\ n > 1
         THEN [out |-> break_loops(FALSE, n - 1), completer |-> completer]
         ELSE [out |-> Return, completer |-> parentmenu[menu]]
    ELSE [out |-> Return, completer |-> completer]

\* _Menu._break_protected.except_: what is left in flight after the loop of
\* menu has caught BreakLoops(N) or EOFError, and the completer it sets.
except_(menu, all, n) ==
    IF parentmenu[menu] # 0
    THEN IF all THEN [out |-> break_loops(TRUE, 0), completer |-> completer]
         ELSE IF n > 1
         THEN [out |-> break_loops(FALSE, n - 1), completer |-> completer]
         ELSE [out |-> Return, completer |-> parentmenu[menu]]
    ELSE [out |-> Return, completer |-> completer]

\* The loop of the innermost menu ends with `e` left from except_: an
\* exception goes on to the caller, a return resumes the caller (the loop
\* of the enclosing menu, or the host when no loop is left).
loop_ends(e) ==
    /\ stack' = Front(stack)
    /\ completer' = e.completer
    /\ unwind' = [unwind EXCEPT !.ended = @ + 1]
    /\ IF e.out.type = "return"
       THEN /\ exc' = NoExc
            /\ pc' = IF Len(stack) = 1 THEN "idle" ELSE "pop"
       ELSE /\ exc' = e.out
            /\ pc' = IF Len(stack) = 1 THEN "crashed" ELSE "raise"

\* _Menu._break_protected.inner: except self.BreakLoops
ExceptBreakLoops ==
    /\ pc = "raise"
    /\ exc.type = "BreakLoops"
    /\ loop_ends(except_(self, exc.all, exc.n))
    /\ UNCHANGED <<name_to_command, loop_cmdlines, loop_test, lists, events,
                   reads, call>>

\* _Menu._break_protected.inner: except EOFError
ExceptEOFError ==
    /\ pc = "raise"
    /\ exc.type = "EOFError"
    /\ loop_ends(except_(self, FALSE, 1))
    /\ UNCHANGED <<name_to_command, loop_cmdlines, loop_test, lists, events,
                   reads, call>>

\* _Menu.loop: except self.ResumeTests
ExceptResumeTests ==
    /\ pc = "raise"
    /\ exc.type = "ResumeTests"
    /\ LET l == loop_cmdlines[self]
           queue == lists[l]
       IN IF Len(queue) = 0
          THEN /\ exc' = Raise("IndexError")
               /\ pc' = "raise"
               /\ unwind' = Raised(Raise("IndexError"))
               /\ UNCHANGED lists
          ELSE /\ lists' = [lists EXCEPT ![l] =
                       IF Head(queue).kind = "TestInteract"
                       THEN Tail(queue) ELSE queue]
               /\ exc' = NoExc
               /\ pc' = "pop"
               /\ UNCHANGED unwind
    /\ UNCHANGED <<name_to_command, loop_cmdlines, loop_test, stack,
                   completer, events, reads, call>>

Signals == {"BreakLoops", "EOFError", "ResumeTests"}

\* Any other exception is caught by no loop: it leaves the loop of the
\* innermost menu for its caller.
Propagate ==
    /\ pc = "raise"
    /\ exc.type \notin Signals
    /\ stack' = Front(stack)
    /\ pc' = IF Len(stack) = 1 THEN "crashed" ELSE "raise"
    /\ unwind' = [unwind EXCEPT !.ended = @ + 1]
    /\ UNCHANGED <<name_to_command, loop_cmdlines, loop_test, lists, exc,
                   completer, events, reads, call>>

Next ==
    \/ \E queue \in Queues, test \in {"True", "False"} : StartLoop(queue, test)
    \/ LoopPop
    \/ \E text \in Texts : LoopInput(text)
    \/ LoopEOF
    \/ LoopRunLine
    \/ ExceptBreakLoops
    \/ ExceptEOFError
    \/ ExceptResumeTests
    \/ Propagate

Spec == Init /\ [][Next]_vars

TypeOK ==
    /\ pc \in {"idle", "pop", "input", "run_line", "raise", "crashed"}
    /\ \A i \in 1..Len(stack) : stack[i].menu \in Menus
    /\ (pc \in {"idle", "crashed"}) = (stack = <<>>)
    /\ (pc = "raise") = (exc.type # "none" /\ stack # <<>>)

----------------------------------------------------------------------------
(* Direct calls of the resolver and of run_command on any menu *)

\* The names the children of the drawn menu are taken from, the prefixes
\* resolved in it and the extra arguments given.
NamePool == {<<"c", "1">>, <<"c", "1", "0">>, <<"c", "2">>, <<"d">>}
PrefixPool == NamePool \cup {<<>>, <<"c">>, <<"e">>}
ArgPool == {<<"y">>, <<"z">>}

Distinct(s) == \A i, j \in 1..Len(s) : i # j => s[i] # s[j]

\* A root menu with up to MaxNames Actions registered in any order.
InitDispatch ==
    /\ \E names \in SeqsUpTo(NamePool, MaxNames) :
           /\ Distinct(names)
           /\ name_to_command =
                  [m \in Menus |->
                       IF m = Root
                       THEN [i \in 1..Len(names) |-> Action(names[i])]
                       ELSE <<>>]
    /\ loop_cmdlines = [m \in Menus |-> 0]
    /\ loop_test = [m \in Menus |-> "unset"]
    /\ lists = [l \in Lists |-> <<>>]
    /\ stack = <<>>
    /\ pc = "idle"
    /\ exc = NoExc
    /\ completer = 0
    /\ events = <<>>
    /\ reads = 0
    /\ unwind = NoUnwind
    /\ call = NoCall

\* root._find_commands(cmdprefix)
FindCommands(cmdprefix) ==
    /\ call' = [op |-> "_find_commands", cmdprefix |-> cmdprefix,
                args |-> <<>>,
                matches |-> _find_commands(name_to_command[Root], cmdprefix),
                result |-> Result(<<>>, Return)]
    /\ UNCHANGED <<name_to_command, loop_cmdlines, loop_test, lists, stack,
                   pc, exc, completer, events, reads, unwind>>

\* root.run_command(cmdprefix, *args)
RunCommand(cmdprefix, args) ==
    /\ call' = [op |-> "run_command", cmdprefix |-> cmdprefix, args |-> args,
                matches |-> <<>>,
                result |-> run_command(name_to_command, Root, cmdprefix, args)]
    /\ UNCHANGED <<name_to_command, loop_cmdlines, loop_test, lists, stack,
                   pc, exc, completer, events, reads, unwind>>

NextDispatch ==
    \/ \E cmdprefix \in PrefixPool : FindCommands(cmdprefix)
    \/ \E cmdprefix \in PrefixPool, args \in SeqsUpTo(ArgPool, MaxArgs) :
           RunCommand(cmdprefix, args)

SpecDispatch == InitDispatch /\ [][NextDispatch]_vars

----------------------------------------------------------------------------
(* Resolver and dispatch: C1 - C4 (checked under SpecDispatch) *)

children == name_to_command[Root]
Registered(name) == \E i \in 1..Len(children) : children[i].name = name
\* The children whose name starts with prefix, in registration order.
StartingWith(prefix) ==
    SelectSeq(children, LAMBDA c : startswith(c.name, prefix))

\* C1: resolving a string that is a registered child name returns exactly
\* the one command registered under that name, also when other sibling
\* names start with it.
C1_ExactMatchFirst ==
    (call.op = "_find_commands" /\ Registered(call.cmdprefix)) =>
        /\ Len(call.matches) = 1
        /\ call.matches[1].name = call.cmdprefix
        /\ \E i \in 1..Len(children) : children[i] = call.matches[1]

\* 'c1' is resolved in a menu where 'c10' was registered before 'c1'.
C1_Witness ==
    /\ call.op = "_find_commands"
    /\ call.cmdprefix = <<"c", "1">>
    /\ keys(children) = <<<<"c", "1", "0">>, <<"c", "1">>>>
    /\ keys(call.matches) = <<<<"c", "1">>>>

\* C2: run_command(head, args) calls execute(args) of the unique match of
\* the resolver and nothing else when there is one match; with no match it
\* calls only on_bad_command, with several only on_ambiguous_command; the
\* hooks return without raising.
C2_DispatchByMatchCount ==
    (call.op = "run_command") =>
        LET cmdmatches == _find_commands(children, call.cmdprefix)
            done == call.result.events
        IN /\ call.result.out = Return
           /\ Len(done) = 1
           /\ done[1].menu = Root
           /\ done[1].args = call.args
           /\ Len(cmdmatches) = 1 =>
                  /\ done[1].ev = "execute"
                  /\ done[1].name = cmdmatches[1].name
           /\ Len(cmdmatches) = 0 =>
                  /\ done[1].ev = "on_bad_command"
                  /\ done[1].name = call.cmdprefix
           /\ Len(cmdmatches) >= 2 =>
                  /\ done[1].ev = "on_ambiguous_command"
                  /\ done[1].name = call.cmdprefix

\* The unique prefix 'c' of 'c2' runs 'c2' with the two arguments given.
C2_Witness ==
    /\ call.op = "run_command"
    /\ call.cmdprefix = <<"c">>
    /\ call.args = <<<<"y">>, <<"z">>>>
    /\ keys(children) = <<<<"d">>, <<"c", "2">>>>
    /\ call.result.events =
           <<Event("execute", Root, <<"c", "2">>, <<<<"y">>, <<"z">>>>, <<>>)>>

\* C3: a prefix that is not a registered name and with which two or more
\* child names start, dispatched without extra arguments, is reported as
\* ambiguous, with exactly the children whose name starts with it, in
\* registration order.
C3_AmbiguousListsAllInOrder ==
    (/\ call.op = "run_command"
     /\ call.args = <<>>
     /\ ~Registered(call.cmdprefix)
     /\ Len(StartingWith(call.cmdprefix)) >= 2) =>
        call.result.events =
            <<Event("on_ambiguous_command", Root, call.cmdprefix, <<>>,
                    keys(StartingWith(call.cmdprefix)))>>

\* 'c' is ambiguous among 'c2', 'd', 'c1' registered in this order.
C3_Witness ==
    /\ call.op = "run_command"
    /\ call.args = <<>>
    /\ call.cmdprefix = <<"c">>
    /\ keys(children) = <<<<"c", "2">>, <<"d">>, <<"c", "1">>>>
    /\ Len(call.result.events) = 1
    /\ call.result.events[1].ev = "on_ambiguous_command"
    /\ call.result.events[1].names = <<<<"c", "2">>, <<"c", "1">>>>

\* C4 as claimed: a prefix with two or more matches followed by extra
\* arguments is reported as an unrecognized command.
C4_Original ==
    (/\ call.op = "run_command"
     /\ Len(call.args) >= 1
     /\ ~Registered(call.cmdprefix)
     /\ Len(StartingWith(call.cmdprefix)) >= 2) =>
        /\ Len(call.result.events) = 1
        /\ call.result.events[1].ev = "on_bad_command"

\* C4 (amended): a prefix that is not a registered name and with which two
\* or more child names start, dispatched with one or more extra arguments,
\* is reported as ambiguous like without arguments: on_ambiguous_command
\* gets the same matches in registration order and the extra arguments, and
\* on_bad_command is not called.
C4_AmbiguousAlsoWithArgs ==
    (/\ call.op = "run_command"
     /\ Len(call.args) >= 1
     /\ ~Registered(call.cmdprefix)
     /\ Len(StartingWith(call.cmdprefix)) >= 2) =>
        call.result.events =
            <<Event("on_ambiguous_command", Root, call.cmdprefix, call.args,
                    keys(StartingWith(call.cmdprefix)))>>

\* 'c y' is ambiguous between 'c1' and 'c2'.
C4_Witness ==
    /\ call.op = "run_command"
    /\ call.args = <<<<"y">>>>
    /\ call.cmdprefix = <<"c">>
    /\ keys(children) = <<<<"c", "1">>, <<"c", "2">>>>
    /\ Len(call.result.events) = 1
    /\ call.result.events[1].ev = "on_ambiguous_command"

----------------------------------------------------------------------------
(* The input loop and its signals: C5 - C10 (checked under Spec) *)

\* The list object the innermost loop pops its lines from.
queue == lists[loop_cmdlines[self]]
depth == Len(unwind.base)
\* The loops that were running when the exception rose, less the innermost
\* ones ended since.
Remaining == SubSeq(unwind.base, 1, depth - unwind.ended)

\* C5: BreakLoops(N), N >= 1, raised by a dispatch of the innermost of k
\* nested loops ends exactly min(N, k) innermost loops, one at a time with
\* N decremented; the loops below are left as they were, and if N < k the
\* loop at depth k - N is back at the head of its while loop, about to
\* read its next line.
C5_BreakLoopsEndsMinLoops ==
    (unwind.type = "BreakLoops" /\ ~unwind.all /\ unwind.n >= 1) =>
        /\ stack = Remaining
        /\ IF pc = "raise"
           THEN /\ unwind.ended < Min(unwind.n, depth)
                /\ exc = break_loops(FALSE, unwind.n - unwind.ended)
           ELSE /\ unwind.ended = Min(unwind.n, depth)
                /\ exc = NoExc
                /\ pc = IF unwind.n < depth THEN "pop" ELSE "idle"

\* break_loops(2) in the third of three nested loops: the root's loop is
\* left running, about to read.
C5_Witness ==
    /\ unwind.type = "BreakLoops"
    /\ ~unwind.all
    /\ unwind.n = 2
    /\ depth = 3
    /\ pc = "pop"
    /\ Len(stack) = 1
    /\ self = Root

\* C6: BreakLoops(True) (Quit) raised at any depth k ends all k running
\* loops: from the raise to the return of the root's loop no loop pops,
\* reads or dispatches a line, and the root's loop returns to the host with
\* no exception left.
C6_QuitEndsAllLoops ==
    (unwind.type = "BreakLoops" /\ unwind.all) =>
        /\ stack = Remaining
        /\ IF unwind.ended < depth
           THEN pc = "raise" /\ exc = break_loops(TRUE, 0)
           ELSE pc = "idle" /\ exc = NoExc /\ stack = <<>>

\* Quit in the third of three nested loops has ended them all.
C6_Witness ==
    /\ unwind.type = "BreakLoops"
    /\ unwind.all
    /\ depth = 3
    /\ unwind.ended = 3
    /\ pc = "idle"

\* C7: in test mode a loop at the head of its while loop with an empty
\* list raises InsufficientTestCommands without reading interactively; the
\* exception passes every running loop unchanged and leaves the root's
\* loop; a test-mode loop reads interactively only for a TestInteract it
\* has just popped.
C7_TestModeEmptyQueueRaises ==
    /\ [][(pc = "pop" /\ loop_test[self] = "True" /\ queue = <<>>) =>
              /\ pc' = "raise"
              /\ exc' = Raise("InsufficientTestCommands")
              /\ stack' = stack
              /\ reads' = reads]_vars
    /\ [](unwind.type = "InsufficientTestCommands" =>
              /\ exc = Raise("InsufficientTestCommands")
              /\ stack = Remaining
              /\ pc = IF unwind.ended < depth THEN "raise" ELSE "crashed")
    /\ []((pc = "input" /\ loop_test[self] = "True") =>
              top.cmdline.kind = "TestInteract")

\* The list ran out in the loop of the sub-menu after 'a' was dispatched
\* there, and the exception has left the root's loop.
C7_Witness ==
    /\ unwind.type = "InsufficientTestCommands"
    /\ depth = 2
    /\ unwind.base[2].cmdline = Str(<<"a">>)
    /\ pc = "crashed"
    /\ exc = Raise("InsufficientTestCommands")

\* C8 as claimed: not testing, a loop that has dispatched the last line of
\* its list ends normally, without an interactive read.
C8_Original ==
    [][(/\ pc = "pop"
        /\ loop_test[self] = "False"
        /\ queue = <<>>
        /\ reads = 0
        /\ top.cmdline.kind = "str") =>
           /\ pc' # "input"
           /\ exc' = NoExc
           /\ stack' = Front(stack)]_vars

\* C8 (amended): in scripted mode (a pre-supplied queue of lines,
\* test=False), once the queue is exhausted the loop does not end: it
\* raises no error and goes on with an interactive read, like a loop
\* started without a queue.
C8_ExhaustedQueueReadsInteractively ==
    [][(pc = "pop" /\ loop_test[self] = "False" /\ queue = <<>>) =>
           /\ pc' = "input"
           /\ exc' = NoExc
           /\ stack' = stack
           /\ lists' = lists]_vars

\* The root's loop has dispatched 'a', the only line of its list, and is
\* waiting in input().
C8_Witness ==
    /\ pc = "input"
    /\ self = Root
    /\ loop_test[Root] = "False"
    /\ top.cmdline = Str(<<"a">>)
    /\ reads = 0
    /\ queue = <<>>

\* A line that is not empty and that the tokenizer rejects.
Malformed(line) == line.kind = "str" /\ Len(line.text) > 0
                       /\ ~SPLIT_ARGS(line.text).ok

\* C9: dispatching a line with malformed quoting only reports it: no
\* command is executed, the menus and the lists are unchanged, no
\* exception is raised and the same loop is back at the head of its while
\* loop.
C9_MalformedLineReported ==
    [][(pc = "run_line" /\ Malformed(top.cmdline)) =>
           /\ events' = <<Event("Bad command", self, <<>>, <<>>, <<>>)>>
           /\ name_to_command' = name_to_command
           /\ lists' = lists
           /\ stack' = stack
           /\ exc' = NoExc
           /\ pc' = "pop"]_vars

\* The loop of the sub-menu has reported the line "a '" and goes on.
C9_Witness ==
    /\ pc = "pop"
    /\ Len(stack) = 2
    /\ top.cmdline = Str(<<"a", " ", "'">>)
    /\ events = <<Event("Bad command", self, <<>>, <<>>, <<>>)>>

\* C10: ResumeTests raised by a dispatch does not end the loop: whatever
\* the list holds, also nothing, the loop deletes its head if and only if
\* it is a TestInteract and goes on with the next line.
C10_ResumeTestsNeverEndsLoop ==
    [][(pc = "raise" /\ exc.type = "ResumeTests") =>
           /\ pc' = "pop"
           /\ exc' = NoExc
           /\ stack' = stack
           /\ lists' = [lists EXCEPT ![loop_cmdlines[self]] =
                  IF queue # <<>> /\ Head(queue).kind = "TestInteract"
                  THEN Tail(queue) ELSE queue]]_vars

----------------------------------------------------------------------------
(* The interactive pause of a test: C11 (checked under Spec) *)

\* A TestInteract that repeats.
Repeats(e) == e.kind = "TestInteract" /\ e.repeat

\* C11: a loop that pops a TestInteract goes to one interactive read,
\* whose line it dispatches; if the TestInteract does not repeat the list
\* is left with the lines after it, if it repeats a TestInteract that
\* repeats and has no message is at the head of the list before the read,
\* and stays there, every pop putting it back, until the ResumeTests
\* handler deletes it; the message is printed when a TestInteract having
\* one is popped, so not for the ones put back.
C11_TestInteractPausesForOneRead ==
    /\ [][(pc = "pop" /\ queue # <<>> /\ Head(queue).kind = "TestInteract") =>
              /\ pc' = "input"
              /\ reads' = reads
              /\ stack' = SetTop(Head(queue))
              /\ lists'[HostList] =
                     IF Head(queue).repeat
                     THEN <<TestInteract(TRUE, FALSE)>> \o Tail(queue)
                     ELSE Tail(queue)
              /\ (events' # <<>>) = Head(queue).message]_vars
    /\ [][pc = "input" =>
              \/ /\ pc' = "run_line"
                 /\ reads' = reads + 1
                 /\ top'.cmdline.kind = "str"
                 /\ lists' = lists
              \/ /\ pc' = "raise"
                 /\ exc' = Raise("EOFError")
                 /\ reads' = reads]_vars
    /\ [][(lists[HostList] # <<>> /\ Repeats(Head(lists[HostList]))) =>
              \/ pc = "raise" /\ exc.type = "ResumeTests"
              \/ /\ lists'[HostList] # <<>>
                 /\ Repeats(Head(lists'[HostList]))
                 /\ Tail(lists'[HostList]) = Tail(lists[HostList])]_vars

\* The second pause in a row: the TestInteract put back by the first pause
\* was popped, nothing was printed, it is at the head again, and 'a' is
\* still behind it.
C11_Witness ==
    /\ pc = "input"
    /\ reads = 1
    /\ top.cmdline = TestInteract(TRUE, FALSE)
    /\ events = <<>>
    /\ queue = <<TestInteract(TRUE, FALSE), Str(<<"a">>)>>

----------------------------------------------------------------------------
(* Registration and removal of commands: C12 (checked under SpecRegister) *)

\* _Command.__init__ binding the name without testing if it is taken
register_overwrites(commands, command) ==
    [out |-> Return,
     commands |-> Append(SelectSeq(commands,
                                   LAMBDA c : c.name # command.name),
                         command)]

\* _Command.__init__, if parentmenu: the mapping of the parent after the
\* command registers itself in it, and the error raised if it cannot.
register(commands, command) ==
    IF ~has_key(commands, command.name)
    THEN [out |-> Return, commands |-> Append(commands, command)]
    ELSE [out |-> Raise("DuplicatedCommandNameError"), commands |-> commands]

\* _Command.uninstall: del self.parentmenu.name_to_command[self.name]
uninstall(commands, name) == SelectSeq(commands, LAMBDA c : c.name # name)

\* The names of the commands the host creates after wiring.
RegisterPool == {<<"c", "1">>, <<"d">>}

\* The host creates an Exit command in the root menu.
Register(name) ==
    /\ Len(events) < MaxOps
    /\ LET command == Command(name, "Exit", 0, <<>>)
           r == register(name_to_command[Root], command)
       IN /\ name_to_command' = [name_to_command EXCEPT ![Root] = r.commands]
          /\ events' = Append(events,
                 Event(IF r.out = Return THEN "registered" ELSE r.out.type,
                       Root, name, <<>>, <<>>))
          /\ call' = [op |-> "register", cmdprefix |-> name, args |-> <<>>,
                      matches |-> <<command>>, result |-> Result(<<>>, r.out)]
    /\ UNCHANGED <<loop_cmdlines, loop_test, lists, stack, pc, exc, completer,
                   reads, unwind>>

\* The host calls uninstall() of the command registered under the name.
Uninstall(name) ==
    /\ Len(events) < MaxOps
    /\ has_key(name_to_command[Root], name)
    /\ name_to_command' = [name_to_command EXCEPT ![Root] =
                               uninstall(name_to_command[Root], name)]
    /\ events' = Append(events, Event("uninstalled", Root, name, <<>>, <<>>))
    /\ call' = [op |-> "uninstall", cmdprefix |-> name, args |-> <<>>,
                matches |-> <<getitem(name_to_command[Root], name)>>,
                result |-> Result(<<>>, Return)]
    /\ UNCHANGED <<loop_cmdlines, loop_test, lists, stack, pc, exc, completer,
                   reads, unwind>>

NextRegister ==
    \/ \E name \in RegisterPool : Register(name)
    \/ \E name \in NamePool : Uninstall(name)

SpecRegister == InitDispatch /\ [][NextRegister]_vars

\* The last operation of the host.
LastOp == events[Len(events)]

\* C12: registering a command under a name present in the mapping raises
\* DuplicatedCommandNameError and changes nothing in the mapping;
\* registering under an absent name, as after the removal of the command
\* that had it, succeeds and binds the name to the new command, at the end
\* of the mapping; a removal deletes the entry of the name only.
C12_DuplicateNameRefused ==
    /\ [][(Len(events') > Len(events) /\ call'.op = "register") =>
              IF Registered(call'.cmdprefix)
              THEN /\ call'.result.out = Raise("DuplicatedCommandNameError")
                   /\ name_to_command' = name_to_command
              ELSE /\ call'.result.out = Return
                   /\ children' = Append(children, call'.matches[1])]_vars
    /\ [][(/\ Len(events') > Len(events)
           /\ events # <<>>
           /\ LastOp.ev = "uninstalled"
           /\ call'.op = "register"
           /\ call'.cmdprefix = LastOp.name) =>
              /\ call'.result.out = Return
              /\ has_key(children', LastOp.name)
              /\ getitem(children', LastOp.name) = call'.matches[1]]_vars
    /\ [][(Len(events') > Len(events) /\ call'.op = "uninstall") =>
              /\ ~has_key(children', call'.cmdprefix)
              /\ \A i \in 1..Len(children) :
                     children[i].name # call'.cmdprefix =>
                         \E j \in 1..Len(children') :
                             children'[j] = children[i]]_vars

\* An Exit 'c1' was refused while the Action 'c1' was registered, the
\* Action was uninstalled, and then the Exit 'c1' was registered.
C12_Witness ==
    /\ Len(events) = 3
    /\ events[1].ev = "DuplicatedCommandNameError"
    /\ events[2].ev = "uninstalled"
    /\ events[3].ev = "registered"
    /\ \A i \in 1..3 : events[i].name = <<"c", "1">>
    /\ has_key(children, <<"c", "1">>)
    /\ getitem(children, <<"c", "1">>).kind = "Exit"

----------------------------------------------------------------------------
(* Completion: C13, C14, C15, C20 (checked under SpecComplete) *)

\* s[sub:]
slice_from(s, sub) ==
    IF sub >= 0
    THEN SubSeq(s, sub + 1, Len(s))
    ELSE SubSeq(s, (IF Len(s) + sub > 0 THEN Len(s) + sub ELSE 0) + 1, Len(s))

\* All the names taken as matches, whatever the token
starting_with_unfiltered(names, token) == names

\* The list of the names (or flags) that start with the token.
starting_with(names, token) ==
    SelectSeq(names, LAMBDA name : startswith(name, token))

\* The end of both complete() methods: a single match is returned without
\* the part of the token that precedes the word of the line editor.
single_or_all(matches, token, rl_prefix) ==
    IF Len(matches) = 1
    THEN <<slice_from(matches[1], Len(token) - Len(rl_prefix))>>
    ELSE matches

\* The accepted_flags the classes pass to _CommandWithFlags.__init__.
accepted_flags(command) ==
    CASE command.kind = "AliasConfig" ->
             << <<"s", "e", "t">>, <<"u", "n", "s", "e", "t">>,
                <<"u", "n", "s", "e", "t", "-", "a", "l", "l">> >>
      [] command.kind = "LineEditorDefault" ->
             << <<"c", "h", "a", "n", "g", "e">>,
                <<"r", "e", "s", "t", "o", "r", "e">> >>
      [] OTHER -> <<>>

\* _CommandWithFlags.complete
flags_complete(command, sp_args, line, rl_prefix) ==
    IF Len(sp_args) = 0 \/ ~endswith(line, sp_args[Len(sp_args)])
    THEN accepted_flags(command)
    ELSE single_or_all(starting_with(accepted_flags(command),
                                     sp_args[Len(sp_args)]),
                       sp_args[Len(sp_args)], rl_prefix)

\* The one-token branch of _Menu.complete taking its matches from
\* _find_commands
one_token_resolver(commands, token, rl_prefix) ==
    single_or_all(keys(_find_commands(commands, token)), token, rl_prefix)

\* The one-token branch of _Menu.complete: the names that start with the
\* token, in the order of the mapping.
one_token(commands, token, rl_prefix) ==
    single_or_all(starting_with(keys(commands), token), token, rl_prefix)

\* The first token looked up among the names that start with it only
first_token_prefix_only(commands, token) ==
    find_commands_no_exact(commands, token)

\* self._find_commands(sp_args[0]) of the delegating branch
first_token(commands, token) == _find_commands(commands, token)

\* The child given all the tokens, the one that selected it included
delegated_all(sp_args) == sp_args

\* sp_args[1:], the tokens the child is given
delegated(sp_args) == Tail(sp_args)

\* _Menu.complete of the menu; the complete() of a child is that of its
\* class: _Menu.complete for a sub-menu, _Command.complete (no candidates)
\* for a command that does not override it, _CommandWithFlags.complete for
\* the others. rl_begidx and rl_endidx are passed on and never read.
RECURSIVE complete(_, _, _, _, _)
complete(ntc, menu, sp_args, line, rl_prefix) ==
    IF Len(sp_args) = 0
    THEN keys(ntc[menu])
    ELSE IF Len(sp_args) = 1 /\ endswith(line, sp_args[1])
    THEN one_token(ntc[menu], sp_args[1], rl_prefix)
    ELSE LET matches == first_token(ntc[menu], sp_args[1]) IN
         IF Len(matches) = 1
         THEN CASE matches[1].kind = "Menu" ->
                       complete(ntc, matches[1].sub, delegated(sp_args), line,
                                rl_prefix)
                [] matches[1].kind = "Command" -> <<>>
                [] OTHER -> flags_complete(matches[1], delegated(sp_args),
                                           line, rl_prefix)
         ELSE <<>>

\* A tree of menus with the commands of the completion scenario: the root
\* with 'list' (a sub-menu), 'load' (a command with flags) and 'log' (a
\* command that does not override complete); under 'list' the names 'c10'
\* and 'c1', registered in this order, 'c1' being a sub-menu, and
\* 'foo-bar'; under 'c1' an Exit and an AliasConfig.
CompletionWiring ==
    [m \in Menus |->
        CASE m = 1 -> <<Command(<<"l", "i", "s", "t">>, "Menu", 2, <<>>),
                        Command(<<"l", "o", "a", "d">>, "LineEditorDefault", 0, <<>>),
                        Command(<<"l", "o", "g">>, "Command", 0, <<>>)>>
          [] m = 2 -> <<Action(<<"c", "1", "0">>),
                        Command(<<"c", "1">>, "Menu", 3, <<>>),
                        Action(<<"f", "o", "o", "-", "b", "a", "r">>)>>
          [] m = 3 -> <<Command(<<"x">>, "Exit", 0, <<>>),
                        Command(<<"k">>, "AliasConfig", 3, <<>>)>>]

\* ' '.join(words)
RECURSIVE join(_)
join(words) ==
    IF Len(words) = 0 THEN <<>>
    ELSE IF Len(words) = 1 THEN words[1]
    ELSE words[1] \o <<" ">> \o join(Tail(words))

\* The words of the line buffer: one word, a first word followed by a
\* second one, and some lines of three words.
FirstWords ==
    {<<"l">>, <<"l", "i">>, <<"l", "o">>, <<"l", "i", "s", "t">>,
     <<"l", "o", "g">>, <<"l", "o", "a", "d">>, <<"c">>,
     <<"c", "1">>, <<"f", "o", "o", "-", "b">>, <<"z">>}
CompleteWords ==
    {<<"l", "i", "s", "t">>, <<"l", "o", "a", "d">>,
     <<"l", "o", "g">>, <<"l">>, <<"c", "1">>}
SecondWords ==
    {<<"c", "1">>, <<"c">>, <<"r", "e">>, <<"k">>,
     <<"f", "o", "o", "-", "b">>}
Phrases ==
    {<<f>> : f \in FirstWords} \cup
    {<<f, g>> : f \in CompleteWords, g \in SecondWords} \cup
    {<<<<"l", "i", "s", "t">>, <<"c", "1">>, <<"k">>>>,
     <<<<"c", "1">>, <<"k">>, <<"u">>>>,
     <<<<"c", "1">>, <<"k">>, <<"s", "e">>>>}

\* readline.get_line_buffer(): nothing, the words with or without a space
\* after the last one, a word after an empty pair of quotes, a word with
\* an open quote.
Buffers ==
    {<<>>} \cup
    {join(p) \o t : p \in Phrases, t \in {<<>>, <<" ">>}} \cup
    {<<Quote, Quote, "l", "i">>, <<"l", "i", Quote>>}

\* The text the line editor asks to complete: the end of the buffer, from
\* one of its word delimiters, a set the host can change.
Prefixes(buffer) ==
    {SubSeq(buffer, i, Len(buffer)) : i \in
         {j \in 1..(Len(buffer) + 1) :
              \A k \in j..Len(buffer) : buffer[k] \notin Whitespace}}

\* The attributes line and matches of a _Completer after its __init__
\* (cached is FALSE while line is None), and the arguments of the last
\* call of menu.complete (none while computed is FALSE).
NoCompletion ==
    [op |-> "none", cached |-> FALSE, buffer |-> <<>>, computed |-> FALSE,
     line |-> <<>>, rl_prefix |-> <<>>, sp_args |-> <<>>, matches |-> <<>>,
     result |-> Result(<<>>, Return)]

\* The host's menus are wired and the loop of one of the two upper menus
\* has set its completer.
InitComplete ==
    /\ name_to_command = CompletionWiring
    /\ completer \in {1, 2}
    /\ loop_cmdlines = [m \in Menus |-> 0]
    /\ loop_test = [m \in Menus |-> "unset"]
    /\ lists = [l \in Lists |-> <<>>]
    /\ stack = <<>>
    /\ pc = "idle"
    /\ exc = NoExc
    /\ events = <<>>
    /\ reads = 0
    /\ unwind = NoUnwind
    /\ call = NoCompletion

\* _Completer.complete for the requests of one completion of the line
\* editor (rl_index 0, 1, ... until None): a new line buffer is recorded,
\* split and completed by the menu, the same one is answered from
\* self.matches.
Complete(buffer, rl_prefix) ==
    /\ call' =
         IF call.cached /\ call.buffer = buffer
         THEN [call EXCEPT !.op = "complete", !.result = Result(<<>>, Return)]
         ELSE IF ~SPLIT_ARGS(buffer).ok
         THEN [call EXCEPT !.op = "complete", !.cached = TRUE,
                           !.buffer = buffer,
                           !.result = Result(<<>>, Raise("BadCommandError"))]
         ELSE [op |-> "complete", cached |-> TRUE, buffer |-> buffer,
               computed |-> TRUE, line |-> buffer, rl_prefix |-> rl_prefix,
               sp_args |-> SPLIT_ARGS(buffer).words,
               matches |-> complete(name_to_command, completer,
                                    SPLIT_ARGS(buffer).words, buffer,
                                    rl_prefix),
               result |-> Result(<<>>, Return)]
    /\ UNCHANGED <<name_to_command, loop_cmdlines, loop_test, lists, stack,
                   pc, exc, completer, events, reads, unwind>>

NextComplete ==
    \E buffer \in Buffers : \E rl_prefix \in Prefixes(buffer) :
        Complete(buffer, rl_prefix)

SpecComplete == InitComplete /\ [][NextComplete]_vars

\* menu.complete has been called; call holds its arguments and its result.
Completed == call.op = "complete" /\ call.computed

\* The menu whose complete() the completer calls, its first token, and the
\* two cases of a line with tokens.
asked == name_to_command[completer]
token == call.sp_args[1]
OneToken == Completed /\ Len(call.sp_args) = 1 /\ endswith(call.line, token)
Delegating == Completed /\ Len(call.sp_args) >= 1 /\ ~OneToken

\* The names of the menu that start with the token, in insertion order.
NamesStarting == SelectSeq(keys(asked), LAMBDA name : startswith(name, token))

\* The line of a completion is the text s and the editor's word the text p.
Asked(menu, s, p) ==
    Completed /\ completer = menu /\ call.line = s /\ call.rl_prefix = p

\* C13 as stated: with the children 'list', 'load', 'log', the token 'lo'
\* yields the three names, and the token 'li' with the editor's word 'li'
\* yields the one candidate 'st'.
C13_Original ==
    keys(asked) = <<<<"l", "i", "s", "t">>, <<"l", "o", "a", "d">>, <<"l", "o", "g">>>> =>
        /\ (Completed /\ call.line = <<"l", "o">>) =>
               call.matches = <<<<"l", "i", "s", "t">>, <<"l", "o", "a", "d">>, <<"l", "o", "g">>>>
        /\ (Completed /\ call.line = <<"l", "i">> /\ call.rl_prefix = <<"l", "i">>) =>
               call.matches = <<<<"s", "t">>>>

\* C13: with the children 'list', 'load', 'log' (in that order), the
\* token 'lo' yields the names that start with it, 'load' and 'log', and
\* the token 'li' with the editor's word 'li' yields the one candidate
\* 'list', the whole name, since the editor replaces its word with it.
C13_ScenarioPrefixMatches ==
    keys(asked) = <<<<"l", "i", "s", "t">>, <<"l", "o", "a", "d">>, <<"l", "o", "g">>>> =>
        /\ (Completed /\ call.line = <<"l", "o">>) =>
               call.matches = <<<<"l", "o", "a", "d">>, <<"l", "o", "g">>>>
        /\ (Completed /\ call.line = <<"l", "i">> /\ call.rl_prefix = <<"l", "i">>) =>
               call.matches = <<<<"l", "i", "s", "t">>>>

\* 'li' was completed in the menu of the scenario with the word 'li'.
C13_Witness ==
    /\ keys(asked) = <<<<"l", "i", "s", "t">>, <<"l", "o", "a", "d">>, <<"l", "o", "g">>>>
    /\ Asked(1, <<"l", "i">>, <<"l", "i">>)
    /\ call.matches = <<<<"l", "i", "s", "t">>>>

\* C14: with one token that ends the line, a single name starting with the
\* token is returned from index len(token) - len(rl_prefix), so that the
\* part of the token before the editor's word followed by the candidate is
\* the name, and the whole name when the editor's word is the token;
\* several names are returned whole in insertion order; no name gives the
\* empty list.
C14_OneTokenCompletion ==
    OneToken =>
        /\ Len(NamesStarting) = 1 =>
               /\ call.matches =
                      <<slice_from(NamesStarting[1],
                                   Len(token) - Len(call.rl_prefix))>>
               /\ Len(call.rl_prefix) <= Len(token) =>
                      SubSeq(token, 1, Len(token) - Len(call.rl_prefix))
                          \o call.matches[1] = NamesStarting[1]
               /\ call.rl_prefix = token =>
                      call.matches = <<NamesStarting[1]>>
        /\ Len(NamesStarting) # 1 => call.matches = NamesStarting
        /\ Asked(2, <<"f", "o", "o", "-", "b">>, <<"b">>) =>
               call.matches = <<<<"b", "a", "r">>>>
        /\ Asked(1, <<"z">>, <<"z">>) => call.matches = <<>>

\* 'foo-b' was completed with the editor's word 'b', giving 'bar'.
C14_Witness ==
    /\ OneToken
    /\ Asked(2, <<"f", "o", "o", "-", "b">>, <<"b">>)
    /\ call.matches = <<<<"b", "a", "r">>>>

\* The complete() of a child, by its class.
child_complete(command, sp_args) ==
    CASE command.kind = "Menu" ->
             complete(name_to_command, command.sub, sp_args, call.line,
                      call.rl_prefix)
      [] command.kind = "Command" -> <<>>
      [] OTHER -> flags_complete(command, sp_args, call.line, call.rl_prefix)

\* C15: when the first token is complete, it is resolved by _find_commands;
\* one match gives the result of the complete() of that child for the
\* tokens after the first, the same line and the same editor's word,
\* through nested sub-menus too; no match or several give the empty list;
\* a command that does not override complete gives the empty list.
C15_DelegatesToUniqueChild ==
    /\ Delegating =>
           LET matches == _find_commands(asked, token) IN
           IF Len(matches) = 1
           THEN call.matches = child_complete(matches[1], Tail(call.sp_args))
           ELSE call.matches = <<>>
    /\ (Completed /\ completer = 1) =>
           /\ call.line = <<"l", "i", "s", "t", " ">> =>
                  call.matches = <<<<"c", "1", "0">>, <<"c", "1">>, <<"f", "o", "o", "-", "b", "a", "r">>>>
           /\ call.line = <<"l", "i", "s", "t", " ", "c", "1", " ">> =>
                  call.matches = <<<<"x">>, <<"k">>>>
           /\ (call.line = <<"l", "o", "a", "d", " ", "r", "e">> /\ call.rl_prefix = <<"r", "e">>) =>
                  call.matches = <<<<"r", "e", "s", "t", "o", "r", "e">>>>
           /\ call.line \in {<<"l", "o", "g", " ">>, <<"l", "o", "g", " ", "c", "1">>} => call.matches = <<>>
           /\ call.line \in {<<"l", " ", "c", "1">>, <<"l", " ", "c", "1", " ">>} => call.matches = <<>>

\* 'list c1 ' was completed in the root: the names of the menu under 'c1'.
C15_Witness ==
    /\ Delegating
    /\ completer = 1
    /\ call.line = <<"l", "i", "s", "t", " ", "c", "1", " ">>
    /\ call.matches = <<<<"x">>, <<"k">>>>

\* C20 as stated: with one token the names considered are those of the
\* commands _find_commands returns for it.
C20_Original ==
    OneToken =>
        call.matches = single_or_all(keys(_find_commands(asked, token)),
                                     token, call.rl_prefix)

\* C20: only the delegating branch of complete shares _find_commands with
\* dispatch: a complete first token that is a registered name selects the
\* command of that name even if sibling names start with it; with one
\* token that ends the line the names considered are all those that start
\* with it, so a registered name that sibling names start with is returned
\* with them, whole and in insertion order.
C20_ResolverOnlyWhenDelegating ==
    /\ (Delegating /\ has_key(asked, token)) =>
           call.matches = child_complete(getitem(asked, token),
                                         Tail(call.sp_args))
    /\ (OneToken /\ has_key(asked, token)) =>
           /\ call.matches = IF Len(NamesStarting) = 1
                             THEN <<slice_from(token, Len(token)
                                                  - Len(call.rl_prefix))>>
                             ELSE NamesStarting
           /\ Len(call.matches) = Len(NamesStarting)
    /\ Asked(2, <<"c", "1">>, <<"c", "1">>) => call.matches = <<<<"c", "1", "0">>, <<"c", "1">>>>

\* 'c1' was completed in the menu that has 'c10' and 'c1', in this order.
C20_Witness ==
    /\ OneToken
    /\ Asked(2, <<"c", "1">>, <<"c", "1">>)
    /\ call.matches = <<<<"c", "1", "0">>, <<"c", "1">>>>

----------------------------------------------------------------------------
(* A menu executed with or without arguments: C16 (checked under Spec) *)

\* The words of the line the innermost loop is about to run, and the
\* commands its first word selects.
words == SPLIT_ARGS(top.cmdline.text).words
selected == _find_commands(name_to_command[self], words[1])

\* The innermost loop is about to run a line whose first word selects one
\* command, a sub-menu.
RunsMenu ==
    /\ pc = "run_line"
    /\ SPLIT_ARGS(top.cmdline.text).ok
    /\ Len(words) >= 1
    /\ Len(selected) = 1
    /\ selected[1].kind = "Menu"

\* C16: a menu executed with arguments dispatches the first of them with
\* the others inside itself, and its loop is not entered: no frame of the
\* menu is added, its loop_cmdlines and loop_test keep their values, no
\* line is popped or read. A menu executed without arguments enters its
\* loop, on the queue of the loop that ran the line.
C16_MenuWithArgsDoesNotLoop ==
    [][RunsMenu =>
          LET M == selected[1].sub IN
          IF Len(words) >= 2
          THEN /\ events'[1] = Event("execute", self, selected[1].name,
                                     Tail(words), <<>>)
               /\ Tail(events') =
                      _run_command(name_to_command, M, words[2],
                                   Tail(Tail(words)), 1).events
               /\ events'[2].menu = M
               /\ events'[2].ev \in {"execute", "on_bad_command",
                                     "on_ambiguous_command"}
               /\ events'[2].ev = "execute" =>
                      events'[2].args = Tail(Tail(words))
               /\ \A i \in (Len(stack) + 1)..Len(stack') : stack'[i].menu # M
               /\ loop_cmdlines'[M] = loop_cmdlines[M]
               /\ loop_test'[M] = loop_test[M]
               /\ lists' = lists
               /\ reads' = reads
          ELSE /\ events' = <<Event("execute", self, selected[1].name, <<>>,
                                    <<>>)>>
               /\ stack' = Append(stack, Frame(M, Unbound))
               /\ pc' = "pop"
               /\ loop_cmdlines'[M] = loop_cmdlines[self]
               /\ loop_test'[M] = loop_test[self]]_vars

\* The root's loop has run 's x': the sub-menu has executed its Exit, whose
\* BreakLoops is in flight in the root's loop, and has never looped.
C16_Witness ==
    /\ pc = "raise"
    /\ exc.type = "BreakLoops"
    /\ Len(stack) = 1
    /\ top.cmdline = Str(<<"s", " ", "x">>)
    /\ events = <<Event("execute", 1, <<"s">>, <<<<"x">>>>, <<>>),
                 Event("execute", 2, <<"x">>, <<>>, <<>>)>>
    /\ loop_cmdlines[2] = 0
    /\ loop_test[2] = "unset"

----------------------------------------------------------------------------
(* AliasConfig: C17 (checked under SpecAlias) *)

\* isinstance(command, Alias); an Alias whose __init__ was left by
\* BadCommandError after its registration has no attribute alias
\* ("AliasUnbuilt").
isAlias(command) == command.kind \in {"Alias", "AliasUnbuilt"}

\* Alias(self.aliasmenu, name, text): the registration in _Command.__init__
\* comes before SPLIT_ARGS(alias), which can raise BadCommandError.
new_alias(commands, name, text) ==
    LET sp == SPLIT_ARGS(text)
        r == register(commands,
                      Command(name, IF sp.ok THEN "Alias" ELSE "AliasUnbuilt",
                              0, sp.words))
    IN [out |-> IF r.out # Return THEN r.out
                ELSE IF sp.ok THEN Return ELSE Raise("BadCommandError"),
        commands |-> r.commands,
        printed |-> "nothing"]

\* AliasConfig._set without the test isinstance(command, Alias)
alias_set_overriding(commands, name, text) ==
    new_alias(uninstall(commands, name), name, text)

\* AliasConfig._set
alias_set(commands, name, text) ==
    IF has_key(commands, name) /\ ~isAlias(getitem(commands, name))
    THEN [out |-> Return, commands |-> commands,
          printed |-> "Cannot override built-in commands"]
    ELSE new_alias(uninstall(commands, name), name, text)

\* AliasConfig._unset
alias_unset(commands, name) ==
    IF ~has_key(commands, name)
    THEN [out |-> Return, commands |-> commands,
          printed |-> "The alias does not exist"]
    ELSE IF ~isAlias(getitem(commands, name))
    THEN [out |-> Return, commands |-> commands,
          printed |-> "Cannot remove built-in commands"]
    ELSE [out |-> Return, commands |-> uninstall(commands, name),
          printed |-> "nothing"]

\* AliasConfig._unset_all
alias_unset_all(commands) ==
    [out |-> Return,
     commands |-> SelectSeq(commands, LAMBDA c : ~isAlias(c)),
     printed |-> "nothing"]

\* AliasConfig.execute on the mapping of its aliasmenu
alias_config(commands, args) ==
    IF Len(args) = 3 /\ args[1] = <<"s", "e", "t">>
    THEN alias_set(commands, args[2], args[3])
    ELSE IF Len(args) = 2 /\ args[1] = <<"u", "n", "s", "e", "t">>
    THEN alias_unset(commands, args[2])
    ELSE IF Len(args) = 1 /\ args[1] = <<"u", "n", "s", "e", "t", "-", "a", "l", "l">>
    THEN alias_unset_all(commands)
    ELSE [out |-> Return, commands |-> commands, printed |-> "Wrong syntax"]

\* The names of the commands and aliases of the alias menu, the texts of
\* the aliases (the last one has an open quote), and the arguments given
\* to the AliasConfig command 'k' of the menu.
AliasNames == {<<"c", "1">>, <<"d">>}
AliasTexts == {<<"d">>, <<"d", " ", Quote>>}
ConfigArgs ==
    {<<<<"s", "e", "t">>, n, t>> : n \in AliasNames \cup {<<"k">>}, t \in AliasTexts} \cup
    {<<<<"u", "n", "s", "e", "t">>, n>> : n \in AliasNames \cup {<<"k">>}} \cup
    {<<<<"u", "n", "s", "e", "t", "-", "a", "l", "l">>>>} \cup
    {<<>>, <<<<"s", "e", "t">>, <<"d">>>>, <<<<"u", "n", "s", "e", "t">>>>,
     <<<<"u", "n", "s", "e", "t", "-", "a", "l", "l">>, <<"d">>>>, <<<<"d">>, <<"d">>, <<"d">>>>}

\* The root menu has the AliasConfig 'k', whose aliasmenu is the root, and
\* after it actions and aliases of distinct names.
InitAlias ==
    /\ \E names \in SeqsUpTo(AliasNames, MaxNames) :
       \E aliases \in SUBSET AliasNames :
           /\ Distinct(names)
           /\ \A n \in aliases : \E i \in 1..Len(names) : names[i] = n
           /\ name_to_command =
                  [m \in Menus |->
                       IF m = Root
                       THEN <<Command(<<"k">>, "AliasConfig", Root, <<>>)>> \o
                            [i \in 1..Len(names) |->
                                 IF names[i] \in aliases
                                 THEN Command(names[i], "Alias", 0, <<<<"k">>>>)
                                 ELSE Action(names[i])]
                       ELSE <<>>]
    /\ loop_cmdlines = [m \in Menus |-> 0]
    /\ loop_test = [m \in Menus |-> "unset"]
    /\ lists = [l \in Lists |-> <<>>]
    /\ stack = <<>>
    /\ pc = "idle"
    /\ exc = NoExc
    /\ completer = 0
    /\ events = <<>>
    /\ reads = 0
    /\ unwind = NoUnwind
    /\ call = NoCall

\* The execute(*args) of the AliasConfig of the root menu.
ConfigureAlias(args) ==
    /\ Len(events) < MaxOps
    /\ LET r == alias_config(name_to_command[Root], args) IN
       /\ name_to_command' = [name_to_command EXCEPT ![Root] = r.commands]
       /\ events' = Append(events, Event(r.printed, Root, <<"k">>, args, <<>>))
       /\ call' = [op |-> "AliasConfig.execute", cmdprefix |-> <<"k">>,
                   args |-> args, matches |-> <<>>,
                   result |-> Result(<<>>, r.out)]
    /\ UNCHANGED <<loop_cmdlines, loop_test, lists, stack, pc, exc, completer,
                   reads, unwind>>

NextAlias == \E args \in ConfigArgs : ConfigureAlias(args)

SpecAlias == InitAlias /\ [][NextAlias]_vars

\* The entries of the mapping that are not Alias commands, in order.
BuiltIn(commands) == SelectSeq(commands, LAMBDA c : ~isAlias(c))

\* C17: AliasConfig never removes or replaces a command that is not an
\* Alias: 'set' and 'unset' of a name bound to such a command leave the
\* mapping of the alias menu as it is, 'unset-all' removes the Alias
\* entries and nothing else, the other entries keeping their order, and
\* arguments of any other shape change nothing and print 'Wrong syntax'.
C17_AliasConfigKeepsBuiltIns ==
    [][(Len(events') > Len(events) /\ call'.op = "AliasConfig.execute") =>
          LET a == call'.args
              isSet == Len(a) = 3 /\ a[1] = <<"s", "e", "t">>
              isUnset == Len(a) = 2 /\ a[1] = <<"u", "n", "s", "e", "t">>
              isUnsetAll == a = <<<<"u", "n", "s", "e", "t", "-", "a", "l", "l">>>>
              builtin(n) == has_key(children, n) /\
                            ~isAlias(getitem(children, n))
          IN /\ BuiltIn(children') = BuiltIn(children)
             /\ (isSet /\ builtin(a[2])) =>
                    /\ children' = children
                    /\ call'.result.out = Return
             /\ (isUnset /\ builtin(a[2])) => children' = children
             /\ isUnsetAll =>
                    /\ children' = BuiltIn(children)
                    /\ \A i \in 1..Len(children') : ~isAlias(children'[i])
             /\ ~(isSet \/ isUnset \/ isUnsetAll) =>
                    /\ children' = children
                    /\ events'[Len(events')].ev = "Wrong syntax"]_vars

\* 'set c1 d', 'unset c1' and 'unset-all' were run on a menu where 'c1'
\* is an Action: it is still bound to the Action, after 'k'.
C17_Witness ==
    /\ Len(events) = 3
    /\ events[1].ev = "Cannot override built-in commands"
    /\ events[1].args = <<<<"s", "e", "t">>, <<"c", "1">>, <<"d">>>>
    /\ events[2].ev = "Cannot remove built-in commands"
    /\ events[2].args = <<<<"u", "n", "s", "e", "t">>, <<"c", "1">>>>
    /\ events[3].args = <<<<"u", "n", "s", "e", "t", "-", "a", "l", "l">>>>
    /\ children = <<Command(<<"k">>, "AliasConfig", Root, <<>>),
                    Action(<<"c", "1">>)>>

----------------------------------------------------------------------------
(* The queue shared by nested loops: C18 (checked under Spec) *)

\* The loop of a sub-menu starts, or the innermost loop ends.
Enters == stack' = Append(stack, Frame(stack'[Len(stack')].menu, Unbound))
Ends == stack # <<>> /\ stack' = Front(stack)

\* C18: the loops nested in one run share one list object and one test
\* flag, those the host gave to the root's loop: a sub-menu entered
\* without arguments gets the list of the loop that ran the line, not a
\* copy, and its flag, and entering it consumes nothing; a line leaves
\* the list only as its head, popped by the innermost loop, which runs it
\* in its own menu; the end of a loop leaves the list as it is, so that
\* the loop that resumes pops the first line the ended loop left.
C18_QueueThreadedThroughLoops ==
    /\ [](\A i \in 1..Len(stack) :
              /\ loop_cmdlines[stack[i].menu] = HostList
              /\ loop_test[stack[i].menu] = loop_test[Root])
    /\ [][(pc = "run_line" /\ Enters) =>
              LET M == stack'[Len(stack')].menu IN
              /\ loop_cmdlines'[M] = loop_cmdlines[self]
              /\ loop_test'[M] = loop_test[self]
              /\ lists' = lists
              /\ pc' = "pop"]_vars
    /\ [][(pc = "pop" /\ queue # <<>> /\ Head(queue).kind = "str") =>
              /\ lists' = [lists EXCEPT ![HostList] = Tail(queue)]
              /\ stack' = SetTop(Head(queue))
              /\ pc' = "run_line"]_vars
    /\ [][pc = "run_line" =>
              /\ events' = run_line(name_to_command, self,
                                    top.cmdline.text).events
              /\ events' # <<>> => events'[1].menu = self
              /\ lists' = lists]_vars
    /\ [][(stack # <<>> /\ lists' # lists) =>
              \/ pc = "pop" /\ queue # <<>>
              \/ pc = "raise" /\ exc.type = "ResumeTests"]_vars
    /\ [][Ends => lists' = lists]_vars

\* From the queue ['s', 'a'] the root's loop has popped 's' and entered
\* the sub-menu, whose loop has popped 'a' from the same list; nothing was
\* read interactively.
C18_Witness ==
    /\ Len(stack) = 2
    /\ stack[1] = Frame(1, Str(<<"s">>))
    /\ stack[2] = Frame(2, Str(<<"a">>))
    /\ pc = "run_line"
    /\ reads = 0
    /\ lists[HostList] = <<>>
    /\ loop_cmdlines[2] = loop_cmdlines[1]
    /\ loop_test[2] = loop_test[1]

\* C19: whenever a loop is about to read a line, the completer set in the
\* line editor is that of the menu of that loop.
C19_CompleterOfReadingMenu == pc = "input" => completer = self

----------------------------------------------------------------------------
(* Lines without words: C21 (checked under Spec) *)

\* A line that is not empty and that the tokenizer splits into no word.
Blank(line) ==
    /\ line.kind = "str"
    /\ Len(line.text) > 0
    /\ SPLIT_ARGS(line.text).ok
    /\ SPLIT_ARGS(line.text).words = <<>>

\* C21: run_line of a line that is not empty and has no word executes no
\* command and raises nothing, and the loop that ran it goes on with its
\* next line.
C21_BlankLineIgnored ==
    [][(pc = "run_line" /\ Blank(top.cmdline)) =>
           /\ \A i \in 1..Len(events') : events'[i].ev # "execute"
           /\ exc' = NoExc
           /\ stack' = stack
           /\ pc' = "pop"]_vars

----------------------------------------------------------------------------
(* An Alias whose text cannot be split: C22 (checked under SpecAlias) *)

\* C22: when the construction of an Alias ends with BadCommandError, the
\* mapping of the menu is what it was before: nothing is registered under
\* the name, and an Alias that was bound to the name still is.
C22_FailedAliasLeavesMapping ==
    [][(/\ Len(events') > Len(events)
        /\ call'.op = "AliasConfig.execute"
        /\ call'.result.out = Raise("BadCommandError")) =>
           children' = children]_vars

----------------------------------------------------------------------------
(* The loop state a sub-menu starts with: C23 (checked under Spec) *)

\* The line the innermost loop is about to run ends in the execute() of a
\* sub-menu without arguments.
EntersSubMenu ==
    /\ pc = "run_line"
    /\ run_line(name_to_command, self, top.cmdline.text).out.type = "loop"

\* C23: whenever a line run by a loop reaches a sub-menu without
\* arguments, also through a menu invoked with arguments, the loop of the
\* sub-menu starts, on the list and with the test flag of the loop that
\* ran the line.
C23_SubMenuUsesRunningLoopState ==
    [][EntersSubMenu =>
           LET M == run_line(name_to_command, self,
                             top.cmdline.text).out.menu IN
           /\ stack' = Append(stack, Frame(M, Unbound))
           /\ pc' = "pop"
           /\ exc' = NoExc
           /\ loop_cmdlines'[M] = loop_cmdlines[self]
           /\ loop_test'[M] = loop_test[self]]_vars

----------------------------------------------------------------------------
(* The loop an Exit ends: C24 (checked under Spec) *)

\* The exception in flight, or the last one raised, is the BreakLoops(1)
\* of an Exit.
ExitRaised == unwind.type = "BreakLoops" /\ ~unwind.all /\ unwind.n = 1

\* C24: the BreakLoops(1) of an Exit, of whichever menu, also of a menu
\* that is not looping and was invoked with arguments, is raised in the
\* loop that ran the line and ends this loop, the innermost one, and no
\* other: the loop around it, if any, is back at the head of its while
\* loop with nothing in flight.
C24_ExitEndsInnermostLoop ==
    /\ [](ExitRaised =>
              \/ /\ unwind.ended = 0
                 /\ pc = "raise"
                 /\ exc = break_loops(FALSE, 1)
                 /\ stack = unwind.base
              \/ /\ unwind.ended = 1
                 /\ exc = NoExc
                 /\ stack = Front(unwind.base)
                 /\ pc = IF stack = <<>> THEN "idle" ELSE "pop")
    /\ [][(pc = "run_line" /\ pc' = "raise"
              /\ exc' = break_loops(FALSE, 1)) =>
              /\ stack' = stack
              /\ unwind' = Raised(exc')
              /\ events'[Len(events')] =
                     Event("execute", events'[Len(events')].menu, <<"x">>,
                           <<>>, <<>>)]_vars
    /\ [][(pc = "raise" /\ exc = break_loops(FALSE, 1)) =>
              /\ stack' = Front(stack)
              /\ exc' = NoExc
              /\ pc' # "raise"]_vars

\* In the loop of the first sub-menu, nested in the root's, the line 's x'
\* has run the Exit of the second sub-menu, which has never looped: the
\* loop of the first sub-menu has ended and the root's goes on.
C24_Witness ==
    /\ ExitRaised
    /\ unwind.ended = 1
    /\ Len(unwind.base) = 2
    /\ unwind.base[2] = Frame(2, Str(<<"s", " ", "x">>))
    /\ events = <<Event("execute", 2, <<"s">>, <<<<"x">>>>, <<>>),
                 Event("execute", 3, <<"x">>, <<>>, <<>>)>>
    /\ loop_cmdlines[3] = 0
    /\ Len(stack) = 1
    /\ self = Root
    /\ pc = "pop"

----------------------------------------------------------------------------
(* Aliases that forward to aliases: C25 (checked under SpecForward) *)

\* The text of the Alias of each name, when the name is that of an Alias:
\* one of the names.
Targets == [AliasNames -> AliasNames]

\* A root menu of Actions and Aliases of distinct names, registered in any
\* order; the text of an Alias is the name of any command, its own too.
InitForward ==
    /\ \E names \in SeqsUpTo(AliasNames, MaxNames) :
       \E aliases \in SUBSET AliasNames : \E target \in Targets :
           /\ Distinct(names)
           /\ name_to_command =
                  [m \in Menus |->
                       IF m = Root
                       THEN [i \in 1..Len(names) |->
                                 IF names[i] \in aliases
                                 THEN Command(names[i], "Alias", 0,
                                              <<target[names[i]]>>)
                                 ELSE Action(names[i])]
                       ELSE <<>>]
    /\ loop_cmdlines = [m \in Menus |-> 0]
    /\ loop_test = [m \in Menus |-> "unset"]
    /\ lists = [l \in Lists |-> <<>>]
    /\ stack = <<>>
    /\ pc = "idle"
    /\ exc = NoExc
    /\ completer = 0
    /\ events = <<>>
    /\ reads = 0
    /\ unwind = NoUnwind
    /\ call = NoCall

SpecForward == InitForward /\ [][NextDispatch]_vars

\* C25: run_command always comes to the execute() of a command that is
\* not an Alias or to a hook: the forwarding of aliases never goes on
\* until the interpreter gives up with RecursionError.
C25_AliasForwardingEnds ==
    call.op = "run_command" =>
        /\ call.result.out.type # "RecursionError"
        /\ call.result.events # <<>>
        /\ LET last == call.result.events[Len(call.result.events)] IN
           \/ last.ev \in {"on_bad_command", "on_ambiguous_command"}
           \/ /\ last.ev = "execute"
              /\ has_key(children, last.name)
              /\ getitem(children, last.name).kind # "Alias"

====
